---- MODULE Spec2Model ----
(***************************************************************************)
(* A model of src/pythonScript/dxf2geojson.py: the DXF -> GeoJSON          *)
(* converter (entity extraction, polyline normalisation, curve             *)
(* tessellation, reprojection, the per-file pipeline and main's batch).    *)
(*                                                                         *)
(* Numbers.  Coordinates are Python floats in the source.  Here a          *)
(* coordinate is an integer count of grid units of 5e-9, so that the       *)
(* tolerance 1e-8 of the source is Tol = 2 grid units and two coordinates  *)
(* can be different and still closer than the tolerance.  Angles are       *)
(* integers in units of 1/16 degree, so that the 16 equal steps of an arc  *)
(* between whole-degree angles are exact.                                  *)
(***************************************************************************)
EXTENDS Integers, Sequences, FiniteSets, TLC

VARIABLES
    \* main and process_dxf_file
    dxf_files,             \* the batch: a sequence of paths, [exists]
    pc,                    \* main's position
    fileIdx,               \* index of main's current file in dxf_files
    output_crs,            \* the destination CRS the dialog returned
    phase,                 \* process_dxf_file's position for the current file
    msp,                   \* DXFProcessor.msp: the entities of the open file
    entIdx,                \* number of entities DXFProcessor.process has visited
    features,              \* DXFProcessor.features
    extracted,             \* history: features as process() returned them
    featIdx,               \* number of features the reprojection loop has visited
    transformed_features,  \* process_dxf_file's local of that name
    transformer,           \* whether a CoordinateTransformer exists for this file
    written,               \* the output files written, in order
    file_log,              \* log records of the current process_dxf_file call
    opened,                \* history: file indices ezdxf.readfile was called on
    parseFailed,           \* history: file indices whose open/parse raised
    \* _extract_polyline, statement by statement
    entityP, posP, coords_3d, unique_coords, nextIdx, kept, polyFeature,
    \* _extract_curve
    entityC, posC, curveFeature, curveAngles

mainVars == <<dxf_files, pc, fileIdx, output_crs, phase, msp, entIdx, features,
              extracted, featIdx, transformed_features, transformer, written,
              file_log, opened, parseFailed>>
polyVars == <<entityP, posP, coords_3d, unique_coords, nextIdx, kept, polyFeature>>
curveVars == <<entityC, posC, curveFeature, curveAngles>>
vars == <<mainVars, polyVars, curveVars>>

-----------------------------------------------------------------------------
(* Bounds of the model *)

MaxVerts == 4        \* longest polyline vertex list drawn in SpecPoly
MaxEntities == 2     \* most entities in one drawing
MaxFiles == 2        \* most files in one batch

(* Program constants *)

Tol == 2             \* 1e-8 in grid units of 5e-9
ArcPoints == 16      \* num_points of an ARC
CirclePoints == 32   \* num_points of a CIRCLE
FullTurn == 5760     \* 2 * math.pi in units of 1/16 degree

SUPPORTED_ENTITIES == {"POINT", "LWPOLYLINE", "POLYLINE", "CIRCLE", "ARC", "LINE"}

None == [type |-> "None"]

-----------------------------------------------------------------------------
(* Small helpers *)

Abs(a) == IF a < 0 THEN -a ELSE a
Min2(a, b) == IF a < b THEN a ELSE b
Last(s) == s[Len(s)]
Range(s) == {s[i] : i \in 1..Len(s)}

RECURSIVE SeqMin(_)
SeqMin(s) == IF Len(s) = 1 THEN s[1] ELSE Min2(s[1], SeqMin(Tail(s)))
RECURSIVE SeqMax(_)
SeqMax(s) == IF Len(s) = 1 THEN s[1]
             ELSE LET m == SeqMax(Tail(s)) IN IF s[1] > m THEN s[1] ELSE m

\* all(abs(a - b) < 1e-8 for a, b in zip(c1, c2))
AllClose(c1, c2) ==
    \A j \in 1..Min2(Len(c1), Len(c2)) : Abs(c1[j] - c2[j]) < Tol

-----------------------------------------------------------------------------
(* DXFProcessor._extract_polyline *)

\* the vertex collection loops: a point of get_points() carries a third
\* component or not; without one the entity's base elevation is used
CollectCoords(entity) ==
    [i \in 1..Len(entity.points) |->
        LET point == entity.points[i] IN
        <<point[1], point[2],
          IF Len(point) > 2 THEN point[3] ELSE entity.elevation>>]

\* the body of the deduplication loop, mutated: compares with the previous
\* INPUT vertex instead of the last retained one
DedupAppendPrevInput(unique, coords, i) ==
    IF unique = <<>> \/ ~AllClose(coords[i], coords[i - 1])
    THEN Append(unique, coords[i])
    ELSE unique

\* the body of the deduplication loop for input vertex i
DedupAppend(unique, coords, i) ==
    IF unique = <<>> \/ ~AllClose(coords[i], Last(unique))
    THEN Append(unique, coords[i])
    ELSE unique

RECURSIVE DedupFrom(_, _, _)
DedupFrom(unique, coords, i) ==
    IF i > Len(coords) THEN unique
    ELSE DedupFrom(DedupAppend(unique, coords, i), coords, i + 1)

\* bool(entity.dxf.flags & 1)
IsClosed(entity) == (entity.flags % 2) = 1

\* the closure step
CloseRing(unique, is_closed) ==
    IF is_closed /\ Len(unique) >= 3 /\ ~AllClose(unique[1], Last(unique))
    THEN Append(unique, unique[1])
    ELSE unique

\* the statistics and the GeoJSON feature
PolylineFeature(entity, unique, is_closed) ==
    LET z_values == [i \in 1..Len(unique) |-> unique[i][3]]
        polygon == is_closed /\ Len(unique) >= 4
    IN [type |-> "Feature",
        geometry |-> [type |-> IF polygon THEN "Polygon" ELSE "LineString",
                      coordinates |-> IF polygon THEN <<unique>> ELSE unique],
        properties |-> [dxftype |-> entity.dxftype,
                        elevation |-> entity.elevation,
                        min_z |-> SeqMin(z_values),
                        max_z |-> SeqMax(z_values)]]

_extract_polyline(entity) ==
    IF entity.raises THEN None
    ELSE LET coords == CollectCoords(entity) IN
         IF coords = <<>> THEN None
         ELSE PolylineFeature(entity,
                  CloseRing(DedupFrom(<<>>, coords, 1), IsClosed(entity)),
                  IsClosed(entity))

-----------------------------------------------------------------------------
(* DXFProcessor._extract_curve *)

\* math.sin on an angle in units of 1/16 degree, as a fixed-point value in
\* hundredths (Bhaskara's rational approximation on each half turn)
\* The approximation is exact at the multiples of a quarter turn; the
\* rounding of the floating-point math.sin (math.sin(2 * math.pi) is about
\* -2.4e-16, not 0) is below the grid and is not represented.
SinFx(a) ==
    LET m == a % FullTurn
        u == IF m <= FullTurn \div 2 THEN m ELSE m - FullTurn \div 2
        p == u * (FullTurn \div 2 - u)
        v == (400 * p) \div (10368000 - p)
    IN IF m <= FullTurn \div 2 THEN v ELSE -v

\* math.cos
CosFx(a) == SinFx(a + FullTurn \div 4)

\* math.radians: whole degrees to units of 1/16 degree
Radians(deg) == deg * 16

\* one tessellation vertex: [x, y, z] at `angle` around the centre
CurvePoint(entity, angle) ==
    <<entity.center[1] + (entity.radius * CosFx(angle)) \div 100,
      entity.center[2] + (entity.radius * SinFx(angle)) \div 100,
      entity.center[3]>>

\* the angles of the CIRCLE loop: (i * 2 * math.pi) / num_points
CircleAngles ==
    [j \in 1..(CirclePoints + 1) |-> ((j - 1) * FullTurn) \div CirclePoints]

\* the end-angle adjustment of the ARC branch
ArcEndAngle(entity) ==
    LET start_angle == Radians(entity.start_angle)
        end_angle == Radians(entity.end_angle)
    IN IF end_angle < start_angle THEN end_angle + FullTurn ELSE end_angle

\* the angles of the ARC loop: start + (i * (end - start)) / num_points
ArcAngles(entity) ==
    LET start_angle == Radians(entity.start_angle)
        end_angle == ArcEndAngle(entity)
    IN [j \in 1..(ArcPoints + 1) |->
          start_angle + ((j - 1) * (end_angle - start_angle)) \div ArcPoints]

_extract_curve(entity) ==
    IF entity.raises THEN None
    ELSE IF entity.dxftype = "CIRCLE" THEN
        [type |-> "Feature",
         geometry |-> [type |-> "Polygon",
                       coordinates |->
                         <<[j \in 1..(CirclePoints + 1) |->
                              CurvePoint(entity, CircleAngles[j])]>>],
         properties |-> [dxftype |-> entity.dxftype, radius |-> entity.radius]]
    ELSE IF entity.dxftype = "ARC" THEN
        [type |-> "Feature",
         geometry |-> [type |-> "LineString",
                       coordinates |->
                         [j \in 1..(ArcPoints + 1) |->
                              CurvePoint(entity, ArcAngles(entity)[j])]],
         properties |-> [dxftype |-> entity.dxftype, radius |-> entity.radius,
                         start_angle |-> entity.start_angle,
                         end_angle |-> entity.end_angle]]
    ELSE None

-----------------------------------------------------------------------------
(* DXFProcessor._extract_point, _extract_line, _process_entity *)

\* mapping(Point(loc.x, loc.y, loc.z)): the coordinates are ONE position
_extract_point(entity) ==
    [type |-> "Point", coordinates |-> entity.location]

\* mapping(LineString([start, end]))
_extract_line(entity) ==
    [type |-> "LineString", coordinates |-> <<entity.start, entity.end>>]

PointOrLineFeature(entity, geom) ==
    [type |-> "Feature", geometry |-> geom,
     properties |-> [dxftype |-> entity.dxftype]]

\* whether _process_entity's except clause runs for this entity (POINT and
\* LINE have no handler of their own; the polyline and curve extractors
\* catch their exceptions themselves and return None)
EntityRaises(entity) ==
    /\ entity.dxftype \in {"POINT", "LINE"}
    /\ entity.raises

\* the feature _process_entity appends for a supported entity, or None
ExtractFeature(entity) ==
    IF entity.dxftype = "POINT"
        THEN PointOrLineFeature(entity, _extract_point(entity))
    ELSE IF entity.dxftype \in {"LWPOLYLINE", "POLYLINE"}
        THEN _extract_polyline(entity)
    ELSE IF entity.dxftype = "LINE"
        THEN PointOrLineFeature(entity, _extract_line(entity))
    ELSE _extract_curve(entity)

\* _process_entity, mutated: the except clause appends a placeholder
_process_entity_placeholder(entity, feats) ==
    IF entity.dxftype \notin SUPPORTED_ENTITIES THEN feats
    ELSE IF EntityRaises(entity) THEN Append(feats, None)
    ELSE IF ExtractFeature(entity) = None THEN feats
    ELSE Append(feats, ExtractFeature(entity))

\* _process_entity, mutated: the feature is inserted at the front
_process_entity_prepend(entity, feats) ==
    IF entity.dxftype \notin SUPPORTED_ENTITIES THEN feats
    ELSE IF EntityRaises(entity) THEN feats
    ELSE IF ExtractFeature(entity) = None THEN feats
    ELSE <<ExtractFeature(entity)>> \o feats

\* _process_entity: self.features after the call, from self.features before
_process_entity(entity, feats) ==
    IF entity.dxftype \notin SUPPORTED_ENTITIES THEN feats
    ELSE IF EntityRaises(entity) THEN feats
    ELSE IF ExtractFeature(entity) = None THEN feats
    ELSE Append(feats, ExtractFeature(entity))

-----------------------------------------------------------------------------
(* CoordinateTransformer *)

\* the destination CRS choices of OutputCRSSelector
CRSOptions == {"EPSG:4326", "EPSG:3857", "EPSG:source"}

\* Transformer.transform(x, y): the library's map for each destination; the
\* source CRS itself as destination leaves the pair as it is
Transform(crs, x, y) ==
    IF crs = "EPSG:source" THEN <<x, y>>
    ELSE IF crs = "EPSG:4326" THEN <<x + 1000, y + 2000>>
    ELSE <<2 * x + 7, 3 * y + 11>>

\* the pairs the transform library raises on
TransformRaises(x, y) == x < 0

RECURSIVE TransformCoords(_, _)
\* the inner loop of transform_geometry over one ring or line
TransformCoords(coords, crs) ==
    IF coords = <<>> THEN <<>>
    ELSE LET coord == Head(coords)
             rest == TransformCoords(Tail(coords), crs)
         IN IF Len(coord) # 3 THEN rest
            ELSE <<Transform(crs, coord[1], coord[2]) \o <<coord[3]>> >> \o rest

CoordsRaise(coords) ==
    \E j \in 1..Len(coords) :
        Len(coords[j]) = 3 /\ TransformRaises(coords[j][1], coords[j][2])

\* transform_geometry, mutated: the Z of a transformed vertex is lost
transform_geometry_flat(feature, crs) ==
    LET geom == feature.geometry
        flat(cs) == [j \in 1..Len(cs) |-> <<cs[j][1], cs[j][2], 0>>]
    IN
    IF geom.type = "Polygon" THEN
        IF \E r \in 1..Len(geom.coordinates) : CoordsRaise(geom.coordinates[r])
        THEN None
        ELSE [feature EXCEPT !.geometry.coordinates =
                 [r \in 1..Len(geom.coordinates) |->
                     flat(TransformCoords(geom.coordinates[r], crs))]]
    ELSE IF geom.type = "LineString" THEN
        IF CoordsRaise(geom.coordinates) THEN None
        ELSE [feature EXCEPT !.geometry.coordinates =
                 flat(TransformCoords(geom.coordinates, crs))]
    ELSE feature

\* transform_geometry: None, or the feature with its coordinates replaced
transform_geometry(feature, crs) ==
    LET geom == feature.geometry IN
    IF geom.type = "Polygon" THEN
        IF \E r \in 1..Len(geom.coordinates) : CoordsRaise(geom.coordinates[r])
        THEN None
        ELSE [feature EXCEPT !.geometry.coordinates =
                 [r \in 1..Len(geom.coordinates) |->
                     TransformCoords(geom.coordinates[r], crs)]]
    ELSE IF geom.type = "LineString" THEN
        IF CoordsRaise(geom.coordinates) THEN None
        ELSE [feature EXCEPT !.geometry.coordinates =
                 TransformCoords(geom.coordinates, crs)]
    ELSE feature

-----------------------------------------------------------------------------
(* Inputs *)

\* sequences over S of length lo..hi
SeqsOf(S, lo, hi) == UNION {[1..n -> S] : n \in lo..hi}

\* polyline vertices: on each axis a vertex closer to the origin than the
\* tolerance and one that is not
GridPoints ==
    {<<0, 0, 0>>, <<1, 0, 0>>, <<2, 0, 0>>, <<0, 2, 0>>, <<0, 0, 1>>, <<0, 0, 2>>}

\* the polylines _extract_polyline is run on: every vertex list up to
\* MaxVerts over GridPoints, open, closed, and with a flag bit other than 1
PolylineInputs ==
    {[dxftype |-> "LWPOLYLINE", points |-> pts, elevation |-> 0,
      flags |-> f, raises |-> FALSE] :
        pts \in SeqsOf(GridPoints, 0, MaxVerts), f \in {0, 1, 128}}

\* start and end angles in degrees, inside and outside 0..360
AngleInputs == {-90, 0, 10, 90, 180, 350, 360, 400, 720}

CurveInputs ==
    {[dxftype |-> "ARC", center |-> c, radius |-> r, start_angle |-> a,
      end_angle |-> b, raises |-> FALSE] :
        c \in {<<500, 500, 0>>, <<0, 0, 7>>}, r \in {100, 500},
        a \in AngleInputs, b \in AngleInputs}
    \cup
    {[dxftype |-> "CIRCLE", center |-> c, radius |-> r, raises |-> x] :
        c \in {<<500, 500, 0>>, <<0, 0, 7>>}, r \in {100, 500},
        x \in BOOLEAN}

-----------------------------------------------------------------------------
(* Idle values: the part of the state a specification does not run *)

MainIdle ==
    /\ dxf_files = <<>>
    /\ pc = "idle"
    /\ fileIdx = 0
    /\ output_crs = "none"
    /\ phase = "Idle"
    /\ msp = <<>>
    /\ entIdx = 0
    /\ features = <<>>
    /\ extracted = <<>>
    /\ featIdx = 0
    /\ transformed_features = <<>>
    /\ transformer = FALSE
    /\ written = <<>>
    /\ file_log = <<>>
    /\ opened = {}
    /\ parseFailed = {}

PolyIdle ==
    /\ entityP = None
    /\ posP = "idle"
    /\ coords_3d = <<>>
    /\ unique_coords = <<>>
    /\ nextIdx = 0
    /\ kept = <<>>
    /\ polyFeature = None

CurveIdle ==
    /\ entityC = None
    /\ posC = "idle"
    /\ curveFeature = None
    /\ curveAngles = <<>>

-----------------------------------------------------------------------------
(* _extract_polyline, statement by statement *)

InitPoly ==
    /\ entityP \in PolylineInputs
    /\ posP = "collect"
    /\ coords_3d = <<>>
    /\ unique_coords = <<>>
    /\ nextIdx = 1
    /\ kept = <<>>
    /\ polyFeature = None
    /\ MainIdle
    /\ CurveIdle

\* the collection loop and the test for an empty vertex list
PolyCollect ==
    /\ posP = "collect"
    /\ coords_3d' = CollectCoords(entityP)
    /\ posP' = IF CollectCoords(entityP) = <<>> THEN "done" ELSE "dedup"
    /\ UNCHANGED <<entityP, unique_coords, nextIdx, kept, polyFeature>>
    /\ UNCHANGED <<mainVars, curveVars>>

\* one iteration of the deduplication loop; kept records the input index of
\* every vertex the iteration appends
PolyDedupStep ==
    /\ posP = "dedup"
    /\ nextIdx <= Len(coords_3d)
    /\ unique_coords' = DedupAppend(unique_coords, coords_3d, nextIdx)
    /\ kept' = IF Len(unique_coords') > Len(unique_coords)
               THEN Append(kept, nextIdx) ELSE kept
    /\ nextIdx' = nextIdx + 1
    /\ UNCHANGED <<entityP, posP, coords_3d, polyFeature>>
    /\ UNCHANGED <<mainVars, curveVars>>

\* the closure step, after the loop
PolyClose ==
    /\ posP = "dedup"
    /\ nextIdx > Len(coords_3d)
    /\ unique_coords' = CloseRing(unique_coords, IsClosed(entityP))
    /\ posP' = "build"
    /\ UNCHANGED <<entityP, coords_3d, nextIdx, kept, polyFeature>>
    /\ UNCHANGED <<mainVars, curveVars>>

\* the statistics, the feature and the return
PolyBuild ==
    /\ posP = "build"
    /\ polyFeature' = PolylineFeature(entityP, unique_coords, IsClosed(entityP))
    /\ posP' = "done"
    /\ UNCHANGED <<entityP, coords_3d, unique_coords, nextIdx, kept>>
    /\ UNCHANGED <<mainVars, curveVars>>

NextPoly == PolyCollect \/ PolyDedupStep \/ PolyClose \/ PolyBuild

SpecPoly == InitPoly /\ [][NextPoly]_vars

-----------------------------------------------------------------------------
(* _extract_curve *)

InitCurve ==
    /\ entityC \in CurveInputs
    /\ posC = "call"
    /\ curveFeature = None
    /\ curveAngles = <<>>
    /\ MainIdle
    /\ PolyIdle

\* the call; curveAngles records the value of `angle` in each iteration
Tessellate ==
    /\ posC = "call"
    /\ curveFeature' = _extract_curve(entityC)
    /\ curveAngles' = IF entityC.raises THEN <<>>
                      ELSE IF entityC.dxftype = "ARC" THEN ArcAngles(entityC)
                      ELSE CircleAngles
    /\ posC' = "done"
    /\ UNCHANGED entityC
    /\ UNCHANGED <<mainVars, polyVars>>

NextCurve == Tessellate

SpecCurve == InitCurve /\ [][NextCurve]_vars

-----------------------------------------------------------------------------
(* Properties of _extract_polyline (SpecPoly) *)

\* two vertices closer than the tolerance on all three axes
WithinTol(v, w) ==
    \A j \in 1..3 : v[j] - w[j] < Tol /\ w[j] - v[j] < Tol

\* the last input index below i whose vertex was retained, 0 if none
PrevKept(i) ==
    LET S == {j \in Range(kept) : j < i}
    IN IF S = {} THEN 0 ELSE CHOOSE j \in S : \A h \in S : h <= j

\* the vertex list of a feature, whatever its shape
Vertices(f) ==
    IF f.geometry.type = "Polygon" THEN f.geometry.coordinates[1]
    ELSE IF f.geometry.type = "LineString" THEN f.geometry.coordinates
    ELSE <<f.geometry.coordinates>>

\* C2: a polyline whose closed flag is set and that has at least 3 distinct
\* vertices comes out as a Polygon whose first and last vertices are
\* identical and whose vertex count is the number of distinct vertices + 1.
C2_ClosedPolylineIsClosedRing ==
    (/\ posP = "done"
     /\ entityP.flags % 2 = 1
     /\ Cardinality(Range(coords_3d)) >= 3)
    => /\ polyFeature # None
       /\ polyFeature.geometry.type = "Polygon"
       /\ Vertices(polyFeature)[1] = Last(Vertices(polyFeature))
       /\ Len(Vertices(polyFeature)) = Cardinality(Range(coords_3d)) + 1

PolyStepsAgree ==
    posP = "done" => polyFeature = _extract_polyline(entityP)

-----------------------------------------------------------------------------
(* Properties of _extract_curve (SpecCurve) *)

\* C10: for an ARC with any start and end angle in degrees the result is a
\* LineString of exactly 17 vertices, at equal angular steps from the start
\* angle to the end angle inclusive, with Z constant at the centre's Z, and
\* the vertex angles never decrease.
C10_ArcSweepsIncreasing ==
    (posC = "done" /\ entityC.dxftype = "ARC") =>
        /\ curveFeature # None
        /\ curveFeature.geometry.type = "LineString"
        /\ Len(curveFeature.geometry.coordinates) = 17
        /\ Len(curveAngles) = 17
        /\ curveAngles[1] = 16 * entityC.start_angle
        /\ (curveAngles[17] - 16 * entityC.end_angle) % FullTurn = 0
        /\ \A j \in 1..16 :
              curveAngles[j + 1] - curveAngles[j] = curveAngles[2] - curveAngles[1]
        /\ \A j \in 1..17 :
              curveFeature.geometry.coordinates[j][3] = entityC.center[3]
        /\ \A j \in 1..16 : curveAngles[j] <= curveAngles[j + 1]

\* a side observation: when the start angle is at most a full turn above the
\* end angle the sweep never decreases
ArcSweepInRange ==
    (/\ posC = "done"
     /\ entityC.dxftype = "ARC"
     /\ entityC.start_angle - entityC.end_angle <= 360)
    => \A j \in 1..16 : curveAngles[j] <= curveAngles[j + 1]

-----------------------------------------------------------------------------
(* The drawings ezdxf.readfile can return *)

\* the entities a drawing is made of
EntityPool ==
    {[dxftype |-> "POINT", location |-> <<3, 4, 5>>, raises |-> FALSE],
     [dxftype |-> "POINT", location |-> <<3, 4, 5>>, raises |-> TRUE],
     [dxftype |-> "LINE", start |-> <<0, 0, 1>>, end |-> <<6, 0, 2>>,
      raises |-> FALSE],
     [dxftype |-> "TEXT", raises |-> FALSE],
     \* a single 2D vertex
     [dxftype |-> "LWPOLYLINE", points |-> << <<1, 1>> >>, elevation |-> 7,
      flags |-> 0, raises |-> FALSE],
     \* a closed square
     [dxftype |-> "LWPOLYLINE",
      points |-> <<<<0, 0, 1>>, <<10, 0, 1>>, <<10, 10, 1>>, <<0, 10, 1>>>>,
      elevation |-> 0, flags |-> 1, raises |-> FALSE],
     \* closed, the last vertex within the tolerance of the first
     [dxftype |-> "POLYLINE",
      points |-> <<<<0, 0, 0>>, <<10, 0, 0>>, <<10, 10, 0>>, <<1, 0, 0>>>>,
      elevation |-> 0, flags |-> 1, raises |-> FALSE],
     \* open, with a vertex the transform library rejects
     [dxftype |-> "LWPOLYLINE", points |-> <<<<-5, 0, 0>>, <<5, 0, 0>>>>,
      elevation |-> 0, flags |-> 0, raises |-> FALSE],
     [dxftype |-> "CIRCLE", center |-> <<500, 500, 3>>, radius |-> 100,
      raises |-> FALSE]}

\* what ezdxf.readfile does with a path: it raises, or returns a drawing
Documents ==
    {[parse_error |-> TRUE, entities |-> <<>>]}
    \cup {[parse_error |-> FALSE, entities |-> es] :
             es \in SeqsOf(EntityPool, 0, MaxEntities)}

-----------------------------------------------------------------------------
(* main and process_dxf_file *)

\* where main is after process_dxf_file raised, mutated: the loop goes on
PcAfterFileErrorContinue == "loop"

\* where main is after process_dxf_file raised: the raise leaves the for
\* loop and ends in main's except clause
PcAfterFileError == "fatal"

\* `if not features`, mutated: the test is never true
NoFeaturesNever(feats) == FALSE

\* `if not features`
NoFeatures(feats) == feats = <<>>

\* the log records of processing one entity
EntityLog(entity) ==
    IF entity.dxftype \notin SUPPORTED_ENTITIES THEN <<>>
    ELSE IF entity.raises THEN <<"entity_error">>
    ELSE IF entity.dxftype \in {"LWPOLYLINE", "POLYLINE"}
            /\ CollectCoords(entity) = <<>> THEN <<"polyline_warning">>
    ELSE <<>>

ResetFile ==
    /\ msp' = <<>>
    /\ entIdx' = 0
    /\ features' = <<>>
    /\ extracted' = <<>>
    /\ featIdx' = 0
    /\ transformed_features' = <<>>
    /\ transformer' = FALSE
    /\ file_log' = <<>>

Init ==
    /\ dxf_files \in SeqsOf([exists : BOOLEAN], 0, MaxFiles)
    /\ pc = "start"
    /\ fileIdx = 0
    /\ output_crs = "none"
    /\ phase = "Idle"
    /\ msp = <<>>
    /\ entIdx = 0
    /\ features = <<>>
    /\ extracted = <<>>
    /\ featIdx = 0
    /\ transformed_features = <<>>
    /\ transformer = FALSE
    /\ written = <<>>
    /\ file_log = <<>>
    /\ opened = {}
    /\ parseFailed = {}
    /\ PolyIdle
    /\ CurveIdle

\* the existence check, mutated: only the first path is tested
AnyPathMissingFirstOnly(files) == ~files[1].exists

\* the existence check: the loop over every path raises FileNotFoundError
\* at the first one that os.path.isfile rejects
AnyPathMissing(files) == \E i \in 1..Len(files) : ~files[i].exists

\* main: no file selected, or the existence check of every path
CheckFiles ==
    /\ pc = "start"
    /\ pc' = IF dxf_files = <<>> THEN "no_files"
             ELSE IF AnyPathMissing(dxf_files) THEN "fatal"
             ELSE "select"
    /\ UNCHANGED <<dxf_files, fileIdx, output_crs, phase, msp, entIdx, features,
                   extracted, featIdx, transformed_features, transformer,
                   written, file_log, opened, parseFailed>>
    /\ UNCHANGED <<polyVars, curveVars>>

\* main: the two dialogs, then the first iteration of the file loop
SelectCRS ==
    /\ pc = "select"
    /\ \E crs \in CRSOptions : output_crs' = crs
    /\ pc' = "loop"
    /\ fileIdx' = 1
    /\ UNCHANGED <<dxf_files, phase, msp, entIdx, features, extracted, featIdx,
                   transformed_features, transformer, written, file_log,
                   opened, parseFailed>>
    /\ UNCHANGED <<polyVars, curveVars>>

\* process_dxf_file: DXFProcessor(dxf_path); a raise is logged, re-raised
\* and caught by main's except clause
OpenFile ==
    /\ pc = "loop"
    /\ phase = "Idle"
    /\ \E doc \in Documents :
          /\ opened' = opened \cup {fileIdx}
          /\ IF doc.parse_error
             THEN /\ parseFailed' = parseFailed \cup {fileIdx}
                  /\ file_log' = Append(file_log, "file_error")
                  /\ phase' = "Failed"
                  /\ pc' = PcAfterFileError
                  /\ UNCHANGED msp
             ELSE /\ msp' = doc.entities
                  /\ phase' = "Opened"
                  /\ UNCHANGED <<parseFailed, file_log, pc>>
    /\ UNCHANGED <<dxf_files, fileIdx, output_crs, entIdx, features, extracted,
                   featIdx, transformed_features, transformer, written>>
    /\ UNCHANGED <<polyVars, curveVars>>

\* DXFProcessor.process: one iteration of `for entity in self.msp`
ProcessEntity ==
    /\ pc = "loop"
    /\ phase \in {"Opened", "Extracting"}
    /\ entIdx < Len(msp)
    /\ features' = _process_entity(msp[entIdx + 1], features)
    /\ file_log' = file_log \o EntityLog(msp[entIdx + 1])
    /\ entIdx' = entIdx + 1
    /\ phase' = "Extracting"
    /\ UNCHANGED <<dxf_files, pc, fileIdx, output_crs, msp, extracted, featIdx,
                   transformed_features, transformer, written, opened,
                   parseFailed>>
    /\ UNCHANGED <<polyVars, curveVars>>

\* process returns; process_dxf_file tests the feature list, and either
\* warns and returns or builds the CoordinateTransformer
FinishExtraction ==
    /\ pc = "loop"
    /\ phase \in {"Opened", "Extracting"}
    /\ entIdx = Len(msp)
    /\ IF NoFeatures(features)
       THEN /\ phase' = "Empty"
            /\ file_log' = Append(file_log, "empty_warning")
            /\ UNCHANGED <<transformer, extracted>>
       ELSE /\ phase' = "Reprojecting"
            /\ transformer' = TRUE
            /\ extracted' = features
            /\ UNCHANGED file_log
    /\ UNCHANGED <<dxf_files, pc, fileIdx, output_crs, msp, entIdx, features,
                   featIdx, transformed_features, written, opened, parseFailed>>
    /\ UNCHANGED <<polyVars, curveVars>>

\* process_dxf_file: one iteration of `for feature in features`; the
\* feature dict is changed in place, so the list `features` sees the change
ReprojectFeature ==
    /\ pc = "loop"
    /\ phase = "Reprojecting"
    /\ featIdx < Len(features)
    /\ LET transformed_feature ==
               transform_geometry(features[featIdx + 1], output_crs)
       IN IF transformed_feature = None
          THEN /\ file_log' = Append(file_log, "transform_error")
               /\ UNCHANGED <<features, transformed_features>>
          ELSE /\ features' = [features EXCEPT ![featIdx + 1] = transformed_feature]
               /\ transformed_features' =
                      Append(transformed_features, transformed_feature)
               /\ UNCHANGED file_log
    /\ featIdx' = featIdx + 1
    /\ UNCHANGED <<dxf_files, pc, fileIdx, output_crs, phase, msp, entIdx,
                   extracted, transformer, written, opened, parseFailed>>
    /\ UNCHANGED <<polyVars, curveVars>>

\* process_dxf_file: the feature collection is written
Serialize ==
    /\ pc = "loop"
    /\ phase = "Reprojecting"
    /\ featIdx = Len(features)
    /\ written' = Append(written, fileIdx)
    /\ phase' = "Serialized"
    /\ UNCHANGED <<dxf_files, pc, fileIdx, output_crs, msp, entIdx, features,
                   extracted, featIdx, transformed_features, transformer,
                   file_log, opened, parseFailed>>
    /\ UNCHANGED <<polyVars, curveVars>>

\* main: process_dxf_file has returned; the next iteration of the file
\* loop, or the end of the batch
NextFile ==
    /\ pc = "loop"
    /\ phase \in {"Empty", "Serialized", "Failed"}
    /\ IF fileIdx < Len(dxf_files)
       THEN fileIdx' = fileIdx + 1 /\ pc' = "loop"
       ELSE fileIdx' = fileIdx /\ pc' = "done"
    /\ phase' = "Idle"
    /\ ResetFile
    /\ UNCHANGED <<dxf_files, output_crs, written, opened, parseFailed>>
    /\ UNCHANGED <<polyVars, curveVars>>

Next ==
    \/ CheckFiles
    \/ SelectCRS
    \/ OpenFile
    \/ ProcessEntity
    \/ FinishExtraction
    \/ ReprojectFeature
    \/ Serialize
    \/ NextFile

Spec == Init /\ [][Next]_vars

-----------------------------------------------------------------------------
(* Properties of the pipeline (Spec) *)

\* equality of two entries of a feature list, a placeholder included
FeatEq(f, g) ==
    /\ f.type = g.type
    /\ f.type = "Feature" =>
          /\ f.geometry.type = g.geometry.type
          /\ f = g

\* the j-th smallest element of a set of indices
Nth(S, j) == CHOOSE i \in S : Cardinality({h \in S : h <= i}) = j

\* the entities among the first n of the drawing that yield a feature
Contributing(n) ==
    {i \in 1..n :
        /\ msp[i].dxftype \in SUPPORTED_ENTITIES
        /\ ~msp[i].raises
        /\ ExtractFeature(msp[i]) # None}

\* a feature the reprojection fails on: transform_geometry calls the
\* transform on a vertex the library raises on
FailsTransform(f) ==
    /\ f.geometry.type \in {"Polygon", "LineString"}
    /\ \E v \in 1..Len(Vertices(f)) :
          TransformRaises(Vertices(f)[v][1], Vertices(f)[v][2])

\* the features among the first n extracted whose reprojection succeeds
Surviving(n) == {j \in 1..n : ~FailsTransform(extracted[j])}

\* C1: every feature process accumulates has the NormalizedGeometry shape:
\* a Polygon ring has at least 4 vertices and its first vertex equals its
\* last, a LineString has at least 2 vertices, a Point is one position.
C1_ShapeInvariant ==
    phase \in {"Opened", "Extracting", "Empty"} =>
        \A j \in 1..Len(features) :
            LET g == features[j].geometry IN
            /\ g.type = "Polygon" =>
                  /\ Len(g.coordinates[1]) >= 4
                  /\ g.coordinates[1][1] = Last(g.coordinates[1])
            /\ g.type = "LineString" => Len(g.coordinates) >= 2
            /\ g.type = "Point" => Len(Vertices(features[j])) = 1

\* the same geometry type, ring count, vertex counts and, vertex by vertex
\* in order, the same Z; the properties are the same
SameShapeAndZ(f, g) ==
    /\ g.geometry.type = f.geometry.type
    /\ g.properties = f.properties
    /\ f.geometry.type = "Polygon" =>
          Len(g.geometry.coordinates) = Len(f.geometry.coordinates)
    /\ Len(Vertices(g)) = Len(Vertices(f))
    /\ \A v \in 1..Len(Vertices(f)) :
          /\ Len(Vertices(g)[v]) = 3
          /\ Vertices(g)[v][3] = Vertices(f)[v][3]

\* C4: a successful transform_geometry leaves the geometry type, the number
\* of rings, the number of vertices of each ring or line, the vertex order
\* and every Z as extraction produced them (only x and y may differ), and
\* what is collected for output is the feature so transformed.
C4_TransformKeepsShapeAndZ ==
    phase \in {"Reprojecting", "Serialized"} =>
        /\ Len(features) = Len(extracted)
        /\ \A j \in 1..Len(features) : SameShapeAndZ(extracted[j], features[j])
        /\ \A k \in 1..Len(transformed_features) :
              \E j \in 1..featIdx :
                  FeatEq(transformed_features[k], features[j])

\* C4 witness: a Polygon with a nonzero Z was reprojected, its x and y
\* changed, and it was collected for output
C4_Witness ==
    /\ phase = "Serialized"
    /\ \E j \in 1..Len(features) :
          /\ features[j].geometry.type = "Polygon"
          /\ features[j] # extracted[j]
          /\ Vertices(extracted[j])[1][3] # 0
          /\ \E k \in 1..Len(transformed_features) :
                FeatEq(transformed_features[k], features[j])

\* C5: in the serialized output every vertex of every feature, a Point
\* included, has the (x, y) the transform gives for the (x, y) of the
\* extracted vertex it comes from.
C5_EveryVertexTransformed ==
    phase = "Serialized" =>
        \A k \in 1..Len(transformed_features) :
            LET out == Vertices(transformed_features[k])
                in == Vertices(extracted[Nth(Surviving(featIdx), k)])
            IN /\ Len(out) = Len(in)
               /\ \A v \in 1..Len(out) :
                     <<out[v][1], out[v][2]>> =
                         Transform(output_crs, in[v][1], in[v][2])

\* C6, the state part: the features accumulated are those of the entities
\* visited so far that yield one, one each, in the order of the entities;
\* extraction ends only when every entity was visited; the features handed
\* to serialization are the extracted ones whose reprojection succeeds, in
\* the same order; nothing stands in for the others.
C6_OrderState ==
    /\ phase \in {"Opened", "Extracting", "Empty"} =>
          LET visited == Contributing(entIdx) IN
          /\ Len(features) = Cardinality(visited)
          /\ \A j \in 1..Len(features) :
                FeatEq(features[j], ExtractFeature(msp[Nth(visited, j)]))
    /\ phase \in {"Reprojecting", "Serialized", "Empty"} =>
          entIdx = Len(msp)
    /\ phase \in {"Reprojecting", "Serialized"} =>
          LET all == Contributing(Len(msp))
              good == Surviving(featIdx)
          IN
          /\ Len(extracted) = Cardinality(all)
          /\ \A j \in 1..Len(extracted) :
                FeatEq(extracted[j], ExtractFeature(msp[Nth(all, j)]))
          /\ Len(transformed_features) = Cardinality(good)
          /\ \A k \in 1..Len(transformed_features) :
                FeatEq(transformed_features[k], features[Nth(good, k)])
    /\ phase = "Serialized" => featIdx = Len(extracted)

\* C6, the step part: the entities are visited one at a time in source
\* order, and one visit adds at most one feature, at the end of the list.
C6_OrderStep ==
    (phase \in {"Opened", "Extracting"} /\ entIdx' # entIdx) =>
        /\ entIdx' = entIdx + 1
        /\ \/ features' = features
           \/ /\ Len(features') = Len(features) + 1
              /\ \A j \in 1..Len(features) : FeatEq(features'[j], features[j])

\* C6: every entity is visited once in source order, contributes at most
\* one feature, and the output keeps the order of the entities.
C6_SourceOrder == []C6_OrderState /\ [][C6_OrderStep]_vars

\* C6 witness: a drawing of two entities that yield different features was
\* serialized with both, in entity order
C6_Witness ==
    /\ phase = "Serialized"
    /\ Len(msp) = 2
    /\ msp[1].dxftype = "LINE"
    /\ msp[2].dxftype = "CIRCLE"
    /\ Len(transformed_features) = 2
    /\ transformed_features[1].properties.dxftype = "LINE"
    /\ transformed_features[2].properties.dxftype = "CIRCLE"


\* C7, the state part: extraction ends with every entity visited; a file
\* with at least one feature is serialized, with every feature visited and
\* exactly the features whose reprojection succeeded; main ends in its
\* except clause, and a file is abandoned, only for a missing path or a file
\* that could not be opened.
C7_SkipState ==
    /\ phase \in {"Reprojecting", "Serialized", "Empty"} => entIdx = Len(msp)
    /\ phase = "Serialized" =>
          /\ featIdx = Len(features)
          /\ written # <<>>
          /\ Last(written) = fileIdx
          /\ Len(transformed_features) = Cardinality(Surviving(Len(extracted)))
          /\ \A k \in 1..Len(transformed_features) :
                ~FailsTransform(extracted[Nth(Surviving(Len(extracted)), k)])
    /\ pc = "fatal" =>
          \/ \E i \in 1..Len(dxf_files) : ~dxf_files[i].exists
          \/ fileIdx \in parseFailed
    /\ phase = "Failed" => fileIdx \in parseFailed

\* C7, the step part: visiting an entity whose extraction raises leaves the
\* accumulated features as they are and the file in extraction; visiting a
\* feature whose reprojection fails leaves the output list as it is and the
\* file in reprojection.
C7_SkipStep ==
    /\ (/\ phase \in {"Opened", "Extracting"}
        /\ entIdx' = entIdx + 1
        /\ msp[entIdx + 1].raises)
       => /\ features' = features
          /\ pc' = "loop"
          /\ phase' = "Extracting"
    /\ (/\ phase = "Reprojecting"
        /\ featIdx' = featIdx + 1
        /\ FailsTransform(features[featIdx + 1]))
       => /\ transformed_features' = transformed_features
          /\ pc' = "loop"
          /\ phase' = "Reprojecting"

\* C7: no failure of one entity's extraction and no failure of one
\* feature's reprojection aborts the file: the failed one adds nothing, the
\* later ones are still processed, and the file is serialized with the
\* features that succeeded.
C7_FailuresAreSkipped == []C7_SkipState /\ [][C7_SkipStep]_vars

\* C7 witness: the first entity raised, the second was still extracted, its
\* reprojection failed, and the file was serialized without it
C7_Witness ==
    /\ phase = "Serialized"
    /\ Len(msp) = 2
    /\ msp[1].raises
    /\ Len(extracted) = 1
    /\ FailsTransform(extracted[1])
    /\ transformed_features = <<>>
    /\ "entity_error" \in Range(file_log)
    /\ "transform_error" \in Range(file_log)

\* C8 as claimed: when main has ended, every file after one whose open or
\* parse failed has been opened all the same.
C8_BatchContinuesAfterOpenFailure ==
    pc \in {"done", "fatal"} =>
        \A i \in parseFailed :
            \A j \in (i + 1)..Len(dxf_files) : j \in opened

\* C8 as amended: a failure to open or parse a file is logged, raised to
\* main and ends the batch there: from then on main is in its except clause
\* and the failed file is the only failed and the last opened one, with no
\* output.
C8_OpenFailureEndsBatch ==
    parseFailed # {} =>
        /\ pc = "fatal"
        /\ phase = "Failed"
        /\ parseFailed = {fileIdx}
        /\ opened = 1..fileIdx
        /\ "file_error" \in Range(file_log)
        /\ fileIdx \notin Range(written)

\* C8 witness: the first of two files failed to open and the batch ended
C8_Witness ==
    /\ pc = "fatal"
    /\ Len(dxf_files) = 2
    /\ parseFailed = {1}
    /\ opened = {1}

\* C9, the state part: in Empty no feature was accumulated, the warning is
\* the last thing logged, no transformer exists, nothing was reprojected,
\* no output was written for the file and nothing was raised; reprojection
\* and serialization are reached only with at least one feature.
C9_EmptyState ==
    /\ phase = "Empty" =>
          /\ features = <<>>
          /\ entIdx = Len(msp)
          /\ file_log # <<>>
          /\ Last(file_log) = "empty_warning"
          /\ ~transformer
          /\ featIdx = 0
          /\ transformed_features = <<>>
          /\ fileIdx \notin Range(written)
          /\ fileIdx \notin parseFailed
          /\ pc = "loop"
    /\ phase \in {"Reprojecting", "Serialized"} =>
          /\ Len(extracted) >= 1
          /\ transformer
          /\ "empty_warning" \notin Range(file_log)
    /\ (pc = "loop" /\ fileIdx \in Range(written)) => phase = "Serialized"

\* C9, the step part: from Empty the only step is main's next loop
\* iteration: nothing is written, nothing is raised, and the next file is
\* the current one, or the batch is done.
C9_EmptyStep ==
    phase = "Empty" =>
        /\ written' = written
        /\ parseFailed' = parseFailed
        /\ phase' = "Idle"
        /\ IF fileIdx < Len(dxf_files)
           THEN pc' = "loop" /\ fileIdx' = fileIdx + 1
           ELSE pc' = "done"

\* C9: a file whose extraction accumulates zero features ends in Empty with
\* a warning, without transformer, reprojection, output or exception, and
\* the batch goes on; reprojection and serialization need a feature.
C9_EmptyFileIsSkipped == []C9_EmptyState /\ [][C9_EmptyStep]_vars

\* C9 witness: the first file had entities, none gave a feature, nothing
\* was written or raised for it, and the second file was opened
C9_Witness ==
    /\ pc = "loop"
    /\ fileIdx = 2
    /\ phase = "Opened"
    /\ written = <<>>
    /\ parseFailed = {}
    /\ opened = {1, 2}


\* C11: when any path of the batch is missing, at whatever position, main
\* ends in its except clause straight from the existence check: no file is
\* ever opened, no coordinate system selected and no output written.
C11_MissingPathAbortsFirst ==
    (\E i \in 1..Len(dxf_files) : ~dxf_files[i].exists) =>
        /\ pc \in {"start", "fatal"}
        /\ opened = {}
        /\ parseFailed = {}
        /\ output_crs = "none"
        /\ written = <<>>
        /\ phase = "Idle"
        /\ fileIdx = 0
        /\ msp = <<>>

\* C11 witness: of two paths the first exists and the last is missing, and
\* the batch has been aborted
C11_Witness ==
    /\ pc = "fatal"
    /\ Len(dxf_files) = 2
    /\ dxf_files[1].exists
    /\ ~dxf_files[2].exists
    /\ opened = {}
    /\ output_crs = "none"

====
